---- MODULE Spec2Model ----
(***************************************************************************)
(* Asset tracker: the Express routes of the asset API (routes), the        *)
(* Drizzle storage layer (storage.ts) and the PostgreSQL table "assets"    *)
(* (shared schema).  A JavaScript string is a tuple of one-character       *)
(* strings, so that parseInt and the numeric column's input and output     *)
(* conversions are computed, not assumed.                                  *)
(***************************************************************************)
EXTENDS Integers, Sequences, FiniteSets, TLC

\* Highest id the serial column hands out in the model.
MaxId == 2

\* Longest import file, in data rows.
MaxRows == 2

-----------------------------------------------------------------------------
(* JavaScript / JSON values *)

Undefined == [json |-> "undefined", s |-> <<>>]
Null == [json |-> "null", s |-> <<>>]
Str(s) == [json |-> "string", s |-> s]
\* A JSON or spreadsheet number, carried with its String(n) text.
Num(s) == [json |-> "number", s |-> s]

\* JavaScript truthiness, as used by `if (x)`, `!x` and `a || b`.
Truthy(v) ==
  CASE v.json = "string" -> v.s # <<>>
    [] v.json = "number" -> v.s # <<"0">>
    [] OTHER -> FALSE

JsOr(a, b) == IF Truthy(a) THEN a ELSE b

Digits == <<"0", "1", "2", "3", "4", "5", "6", "7", "8", "9">>
IsDigit(c) == \E i \in 1..10 : Digits[i] = c
DigitVal(c) == (CHOOSE i \in 1..10 : Digits[i] = c) - 1

RECURSIVE DigitsPrefix(_)
DigitsPrefix(s) ==
  IF s = <<>> \/ ~IsDigit(Head(s)) THEN <<>>
  ELSE <<Head(s)>> \o DigitsPrefix(Tail(s))

RECURSIVE DigitsValue(_)
DigitsValue(s) ==
  IF s = <<>> THEN 0
  ELSE DigitsValue(SubSeq(s, 1, Len(s) - 1)) * 10 + DigitVal(s[Len(s)])

RECURSIVE DigitsOf(_)
DigitsOf(n) ==
  IF n < 10 THEN <<Digits[n + 1]>>
  ELSE DigitsOf(n \div 10) \o <<Digits[(n % 10) + 1]>>

RECURSIVE Pow10(_)
Pow10(n) == IF n = 0 THEN 1 ELSE 10 * Pow10(n - 1)

HasSign(s) == s # <<>> /\ Head(s) \in {"-", "+"}
Unsigned(s) == IF HasSign(s) THEN Tail(s) ELSE s

\* parseInt(req.params.id): an optional sign and the longest run of leading
\* digits; NaN when there is none.  Trailing characters are ignored.
parseInt(s) ==
  LET d == DigitsPrefix(Unsigned(s))
      n == DigitsValue(d)
  IN IF d = <<>> THEN [nan |-> TRUE, n |-> 0]
     ELSE [nan |-> FALSE, n |-> IF Head(s) = "-" THEN 0 - n ELSE n]

-----------------------------------------------------------------------------
(* The table's columns *)

SchemaKeys == <<"name", "type", "tag", "serialNumber", "cost", "acquisitionDate">>
KeySet == {SchemaKeys[i] : i \in 1..Len(SchemaKeys)}
\* The notNull columns; id has a default and is omitted from the insert schema.
Required == {"name", "type", "tag", "cost"}
\* A request body may carry any key; "id" stands for the keys the schema omits.
BodyKeys == KeySet \cup {"id"}

CostScale == 2
CostPrecision == 10

\* Input conversion of a decimal(10, 2) column: [sign] digits [. digits] or
\* [sign] . digits, rounded half away from zero to two places; a syntax error
\* or a value of more than ten digits is an error.  The value is in cents.
DecimalIn(s) ==
  LET body == Unsigned(s)
      ip == DigitsPrefix(body)
      rest == SubSeq(body, Len(ip) + 1, Len(body))
      hasDot == rest # <<>> /\ Head(rest) = "."
      fp == IF hasDot THEN DigitsPrefix(Tail(rest)) ELSE <<>>
      used == Len(ip) + (IF hasDot THEN 1 + Len(fp) ELSE 0)
      scale == Pow10(Len(fp))
      num == DigitsValue(ip \o fp) * Pow10(CostScale)
      abs == (2 * num + scale) \div (2 * scale)
      syntax == (ip # <<>> \/ fp # <<>>) /\ used = Len(body)
  IN IF ~syntax \/ Len(DigitsOf(abs)) > CostPrecision THEN [ok |-> FALSE, cents |-> 0]
     ELSE [ok |-> TRUE, cents |-> IF Head(s) = "-" THEN 0 - abs ELSE abs]

\* DecimalOut without the padding of the decimals: 150.05 reads 150.5.
DecimalOutUnpadded(cents) ==
  LET abs == IF cents < 0 THEN 0 - cents ELSE cents
  IN (IF cents < 0 THEN <<"-">> ELSE <<>>)
     \o DigitsOf(abs \div Pow10(CostScale)) \o <<".">>
     \o DigitsOf(abs % Pow10(CostScale))

\* Output conversion of the same column: always two decimal places.
DecimalOut(cents) ==
  LET abs == IF cents < 0 THEN 0 - cents ELSE cents
      unit == Pow10(CostScale)
      frac == DigitsOf(abs % unit)
  IN (IF cents < 0 THEN <<"-">> ELSE <<>>)
     \o DigitsOf(abs \div unit) \o <<".">>
     \o (IF Len(frac) < CostScale THEN <<"0">> ELSE <<>>) \o frac

\* Input conversion of the date column for ISO text yyyy-mm-dd, which the
\* column also gives back; any other text is an error.
DateIn(s) ==
  /\ Len(s) = 10
  /\ s[5] = "-" /\ s[8] = "-"
  /\ \A i \in {1, 2, 3, 4, 6, 7, 9, 10} : IsDigit(s[i])
  /\ DigitsValue(SubSeq(s, 6, 7)) \in 1..12
  /\ DigitsValue(SubSeq(s, 9, 10)) \in 1..31

\* Whether the column accepts the value (undefined means: not supplied).
ColumnOk(k, v) ==
  CASE v.json # "string" -> TRUE
    [] k = "cost" -> DecimalIn(v.s).ok
    [] k = "acquisitionDate" -> DateIn(v.s)
    [] OTHER -> TRUE

\* The value as the column stores and returns it.
ColumnValue(k, v) ==
  CASE v.json # "string" -> Null
    [] k = "cost" -> Str(DecimalOut(DecimalIn(v.s).cents))
    [] OTHER -> v

-----------------------------------------------------------------------------
(* insertAssetSchema: createInsertSchema(assets).omit({ id: true }) *)

\* One key of the schema: a notNull column is a string, a nullable column is a
\* string, null or absent; under partial() every key may be absent.
ZodFieldOk(k, v, partial) ==
  CASE v.json = "undefined" -> partial \/ k \notin Required
    [] v.json = "null" -> k \notin Required
    [] OTHER -> v.json = "string"

\* The issues of a parse, one per failing key, in schema order.
ZodIssues(body, partial) ==
  SelectSeq(SchemaKeys, LAMBDA k : ~ZodFieldOk(k, body[k], partial))

\* The parsed value: the schema's keys only (unknown keys are stripped).
ZodData(body) == [k \in KeySet |-> body[k]]

-----------------------------------------------------------------------------
(* The assets table and DatabaseStorage.  A table is the sequence of its rows *)
(* in insertion order; seq is the next value of the id column's sequence.    *)

Rows(tbl) == {tbl[i] : i \in 1..Len(tbl)}
Ids(tbl) == {tbl[i].id : i \in 1..Len(tbl)}
Tags(tbl) == {tbl[i].tag : i \in 1..Len(tbl)}

getAllAssets(tbl) == tbl

\* The rows a select returns: none or one; `asset || undefined` is its head.
getAsset(tbl, id) == SelectSeq(tbl, LAMBDA r : r.id = id)

getAssetByTag(tbl, tag) == SelectSeq(tbl, LAMBDA r : r.tag = Str(tag))

\* The row an insert of `data` stores under `id`.
InsertRow(id, data) ==
  [k \in KeySet \cup {"id"} |->
     IF k = "id" THEN id ELSE ColumnValue(k, data[k])]

DataOk(data) == \A k \in KeySet : ColumnOk(k, data[k])

\* InsertRows on a table whose tag column has no unique constraint.
RECURSIVE InsertRowsNoUnique(_, _, _, _)
InsertRowsNoUnique(tbl, seq, list, done) ==
  IF list = <<>>
    THEN [err |-> "", assets |-> tbl \o done, seq |-> seq, rows |-> done]
  ELSE InsertRowsNoUnique(tbl, seq + 1, Tail(list),
                          Append(done, InsertRow(seq, Head(list))))

\* One INSERT statement of several rows, returning them.  A value the column
\* rejects fails the statement before any row is formed; a row whose tag is
\* taken (by the table or by an earlier row of the statement) fails it after
\* the sequence has advanced for that row.  A failed statement stores nothing.
RECURSIVE InsertRows(_, _, _, _)
InsertRows(tbl, seq, list, done) ==
  IF list = <<>>
    THEN [err |-> "", assets |-> tbl \o done, seq |-> seq, rows |-> done]
  ELSE LET row == InsertRow(seq, Head(list))
       IN IF row.tag \in Tags(tbl \o done)
            THEN [err |-> "unique", assets |-> tbl, seq |-> seq + 1, rows |-> <<>>]
          ELSE InsertRows(tbl, seq + 1, Tail(list), Append(done, row))

\* DbInsert numbering from the table's last row instead of the sequence.
DbInsertAfterLast(tbl, seq, list) ==
  IF \E i \in 1..Len(list) : ~DataOk(list[i])
    THEN [err |-> "syntax", assets |-> tbl, seq |-> seq, rows |-> <<>>]
  ELSE InsertRows(tbl, IF tbl = <<>> THEN 1 ELSE tbl[Len(tbl)].id + 1, list, <<>>)

DbInsert(tbl, seq, list) ==
  IF \E i \in 1..Len(list) : ~DataOk(list[i])
    THEN [err |-> "syntax", assets |-> tbl, seq |-> seq, rows |-> <<>>]
  ELSE InsertRows(tbl, seq, list, <<>>)

createAsset(tbl, seq, insertAsset) == DbInsert(tbl, seq, <<insertAsset>>)

createManyAssets(tbl, seq, insertAssets) ==
  IF Len(insertAssets) = 0
    THEN [err |-> "", assets |-> tbl, seq |-> seq, rows |-> <<>>]
  ELSE DbInsert(tbl, seq, insertAssets)

\* SetRow as a replacement of the row: a column not supplied is cleared,
\* unless it is notNull.
SetRowReplace(row, updateData) ==
  [k \in KeySet \cup {"id"} |->
     IF k # "id" /\ updateData[k].json # "undefined"
       THEN ColumnValue(k, updateData[k])
     ELSE IF k \in Required \cup {"id"} THEN row[k] ELSE Null]

\* UPDATE ... SET: the supplied columns are overwritten, the others kept.
SetRow(row, updateData) ==
  [k \in KeySet \cup {"id"} |->
     IF k # "id" /\ updateData[k].json # "undefined"
       THEN ColumnValue(k, updateData[k])
     ELSE row[k]]

\* update(assets).set(updateData).where(eq(assets.id, id)).returning(): an
\* empty set list and a value the column rejects fail the statement, and so
\* does a tag that another row holds.
updateAsset(tbl, id, updateData) ==
  LET new == [i \in 1..Len(tbl) |->
                IF tbl[i].id = id THEN SetRow(tbl[i], updateData) ELSE tbl[i]]
  IN IF \A k \in KeySet : updateData[k].json = "undefined"
       THEN [err |-> "empty", assets |-> tbl, rows |-> <<>>]
     ELSE IF ~DataOk(updateData)
       THEN [err |-> "syntax", assets |-> tbl, rows |-> <<>>]
     ELSE IF \E i, j \in 1..Len(tbl) : i # j /\ new[i].tag = new[j].tag
       THEN [err |-> "unique", assets |-> tbl, rows |-> <<>>]
     ELSE [err |-> "", assets |-> new, rows |-> getAsset(new, id)]

\* deleteAsset reporting success whatever the statement returned.
deleteAssetAlways(tbl, id) ==
  [assets |-> SelectSeq(tbl, LAMBDA r : r.id # id), deleted |-> TRUE]

\* delete(assets).where(eq(assets.id, id)).returning(): true when a row went.
deleteAsset(tbl, id) ==
  [assets |-> SelectSeq(tbl, LAMBDA r : r.id # id),
   deleted |-> Len(getAsset(tbl, id)) > 0]

-----------------------------------------------------------------------------
(* The routes.  Each gives the response and the table and sequence it leaves. *)

Answer(status, tbl, seq, errors, rowErrors, out) ==
  [status |-> status, assets |-> tbl, seq |-> seq,
   errors |-> errors, rowErrors |-> rowErrors, out |-> out]

\* app.get("/api/assets")
GetAssets(tbl, seq) == Answer(200, tbl, seq, <<>>, <<>>, getAllAssets(tbl))

\* app.get("/api/assets/:id")
GetAssetById(tbl, seq, param) ==
  LET id == parseInt(param)
      asset == getAsset(tbl, id.n)
  IN IF id.nan THEN Answer(400, tbl, seq, <<>>, <<>>, <<>>)
     ELSE IF asset = <<>> THEN Answer(404, tbl, seq, <<>>, <<>>, <<>>)
     ELSE Answer(200, tbl, seq, <<>>, <<>>, asset)

\* PostAsset without the getAssetByTag check.
PostAssetUnchecked(tbl, seq, body) ==
  LET issues == ZodIssues(body, FALSE)
      created == createAsset(tbl, seq, ZodData(body))
  IN IF issues # <<>> THEN Answer(400, tbl, seq, issues, <<>>, <<>>)
     ELSE IF created.err # ""
       THEN Answer(500, created.assets, created.seq, <<>>, <<>>, <<>>)
     ELSE Answer(201, created.assets, created.seq, <<>>, <<>>, created.rows)

\* app.post("/api/assets")
PostAsset(tbl, seq, body) ==
  LET issues == ZodIssues(body, FALSE)
      validatedData == ZodData(body)
      existingAsset == getAssetByTag(tbl, validatedData.tag.s)
      created == createAsset(tbl, seq, validatedData)
  IN IF issues # <<>> THEN Answer(400, tbl, seq, issues, <<>>, <<>>)
     ELSE IF existingAsset # <<>> THEN Answer(409, tbl, seq, <<>>, <<>>, <<>>)
     ELSE IF created.err # ""
       THEN Answer(500, created.assets, created.seq, <<>>, <<>>, <<>>)
     ELSE Answer(201, created.assets, created.seq, <<>>, <<>>, created.rows)

\* The tag check of the update route: made only when validatedData.tag is
\* truthy, and a conflict only when the holder is another id.
PutTagConflict(tbl, id, validatedData) ==
  /\ Truthy(validatedData.tag)
  /\ LET existingAsset == getAssetByTag(tbl, validatedData.tag.s)
     IN existingAsset # <<>> /\ Head(existingAsset).id # id

\* app.put("/api/assets/:id")
PutAsset(tbl, seq, param, body) ==
  LET id == parseInt(param)
      issues == ZodIssues(body, TRUE)
      validatedData == ZodData(body)
      updated == updateAsset(tbl, id.n, validatedData)
  IN IF id.nan THEN Answer(400, tbl, seq, <<>>, <<>>, <<>>)
     ELSE IF issues # <<>> THEN Answer(400, tbl, seq, issues, <<>>, <<>>)
     ELSE IF PutTagConflict(tbl, id.n, validatedData)
       THEN Answer(409, tbl, seq, <<>>, <<>>, <<>>)
     ELSE IF updated.err # "" THEN Answer(500, updated.assets, seq, <<>>, <<>>, <<>>)
     ELSE IF updated.rows = <<>> THEN Answer(404, updated.assets, seq, <<>>, <<>>, <<>>)
     ELSE Answer(200, updated.assets, seq, <<>>, <<>>, updated.rows)

\* app.delete("/api/assets/:id")
DeleteAsset(tbl, seq, param) ==
  LET id == parseInt(param)
      gone == deleteAsset(tbl, id.n)
  IN IF id.nan THEN Answer(400, tbl, seq, <<>>, <<>>, <<>>)
     ELSE IF ~gone.deleted THEN Answer(404, gone.assets, seq, <<>>, <<>>, <<>>)
     ELSE Answer(200, gone.assets, seq, <<>>, <<>>, <<>>)

-----------------------------------------------------------------------------
(* Import.  A sheet row is a record of its cells by column header; an empty  *)
(* cell is undefined.                                                        *)

Aliases ==
  [name |-> <<"Asset Name", "Name", "asset_name", "name">>,
   type |-> <<"Asset Type", "Type", "asset_type", "type">>,
   tag |-> <<"Asset Tag", "Tag", "asset_tag", "tag">>,
   cost |-> <<"Cost", "cost", "Price", "price">>,
   serialNumber |-> <<"Serial Number", "SerialNumber", "serial_number", "serial">>,
   acquisitionDate |->
     <<"Acquisition Date", "AcquisitionDate", "acquisition_date", "date">>]

Columns == UNION {{Aliases[k][i] : i \in 1..4} : k \in KeySet}

\* row[a] || row[b] || row[c] || row[d]
Cell(row, k) ==
  LET a == Aliases[k]
  IN JsOr(JsOr(JsOr(row[a[1]], row[a[2]]), row[a[3]]), row[a[4]])

MissingRequired(row) ==
  \/ ~Truthy(Cell(row, "name"))
  \/ ~Truthy(Cell(row, "type"))
  \/ ~Truthy(Cell(row, "tag"))
  \/ Cell(row, "cost").json = "undefined"

\* The object handed to insertAssetSchema.parse: String(x) of the required
\* cells, and String(x) or undefined of the optional ones.
AssetData(row) ==
  [k \in KeySet |->
     IF k \in Required \/ Truthy(Cell(row, k))
       THEN Str(Cell(row, k).s)
     ELSE Undefined]

\* ScanRow without the getAssetByTag check.
ScanRowUnchecked(tbl, row, i) ==
  IF MissingRequired(row)
    THEN [ok |-> FALSE, error |-> [row |-> i + 1, kind |-> "missing", issues |-> <<>>]]
  ELSE IF ZodIssues(AssetData(row), FALSE) # <<>>
    THEN [ok |-> FALSE,
          error |-> [row |-> i + 1, kind |-> "zod",
                     issues |-> ZodIssues(AssetData(row), FALSE)]]
  ELSE [ok |-> TRUE, asset |-> ZodData(AssetData(row))]

\* ScanRow with the getAssetByTag check made first.
ScanRowTagFirst(tbl, row, i) ==
  IF getAssetByTag(tbl, Cell(row, "tag").s) # <<>>
    THEN [ok |-> FALSE, error |-> [row |-> i + 1, kind |-> "exists", issues |-> <<>>]]
  ELSE IF MissingRequired(row)
    THEN [ok |-> FALSE, error |-> [row |-> i + 1, kind |-> "missing", issues |-> <<>>]]
  ELSE IF ZodIssues(AssetData(row), FALSE) # <<>>
    THEN [ok |-> FALSE,
          error |-> [row |-> i + 1, kind |-> "zod",
                     issues |-> ZodIssues(AssetData(row), FALSE)]]
  ELSE [ok |-> TRUE, asset |-> ZodData(AssetData(row))]

\* What the loop body does with data row i (row number i + 1 with the header).
ScanRow(tbl, row, i) ==
  IF MissingRequired(row)
    THEN [ok |-> FALSE, error |-> [row |-> i + 1, kind |-> "missing", issues |-> <<>>]]
  ELSE IF getAssetByTag(tbl, Cell(row, "tag").s) # <<>>
    THEN [ok |-> FALSE, error |-> [row |-> i + 1, kind |-> "exists", issues |-> <<>>]]
  ELSE IF ZodIssues(AssetData(row), FALSE) # <<>>
    THEN [ok |-> FALSE,
          error |-> [row |-> i + 1, kind |-> "zod",
                     issues |-> ZodIssues(AssetData(row), FALSE)]]
  ELSE [ok |-> TRUE, asset |-> ZodData(AssetData(row))]

\* The state of the loop after the first n rows of data.
RECURSIVE Scan(_, _, _)
Scan(tbl, data, n) ==
  IF n = 0 THEN [assetsToCreate |-> <<>>, errors |-> <<>>]
  ELSE LET sofar == Scan(tbl, data, n - 1)
           this == ScanRow(tbl, data[n], n)
       IN IF this.ok
            THEN [sofar EXCEPT !.assetsToCreate = Append(@, this.asset)]
          ELSE [sofar EXCEPT !.errors = Append(@, this.error)]

\* app.post("/api/assets/import")
ImportAssets(tbl, seq, data) ==
  LET scan == Scan(tbl, data, Len(data))
      created == createManyAssets(tbl, seq, scan.assetsToCreate)
  IN IF Len(data) = 0 THEN Answer(400, tbl, seq, <<>>, <<>>, <<>>)
     ELSE IF Len(scan.errors) > 0 /\ Len(scan.assetsToCreate) = 0
       THEN Answer(400, tbl, seq, <<>>, scan.errors, <<>>)
     ELSE IF created.err # ""
       THEN Answer(500, created.assets, created.seq, <<>>, <<>>, <<>>)
     ELSE Answer(200, created.assets, created.seq, <<>>, scan.errors, created.rows)

\* upload: multer's limits and fileFilter.
AllowedTypes ==
  {"application/vnd.openxmlformats-officedocument.spreadsheetml.sheet",
   "application/vnd.ms-excel"}

FileSizeLimit == 10 * 1024 * 1024

\* The file part of a multipart request: whether there is one, its declared
\* type and its length in bytes.
NoFile == [present |-> FALSE, mimetype |-> "", size |-> 0]

\* fileFilter accepting every type.
fileFilterAny(file) == TRUE

fileFilter(file) == file.mimetype \in AllowedTypes

\* upload.single("file"): no file part leaves req.file undefined; a type the
\* filter refuses and a part longer than the limit are errors passed on to the
\* application's error handler.
UploadSingle(file) ==
  IF ~file.present THEN "none"
  ELSE IF ~fileFilter(file) THEN "error"
  ELSE IF file.size > FileSizeLimit THEN "error"
  ELSE "file"

\* The status the application's error handler gives an upload error.
UploadErrorStatus == 400

\* POST /api/assets/import: the upload middleware, then the route.
ImportRoute(tbl, seq, file, data) ==
  LET up == UploadSingle(file)
  IN IF up = "error" THEN Answer(UploadErrorStatus, tbl, seq, <<>>, <<>>, <<>>)
     ELSE IF up = "none" THEN Answer(400, tbl, seq, <<>>, <<>>, <<>>)
     ELSE ImportAssets(tbl, seq, data)

-----------------------------------------------------------------------------
(* Export *)

ExportHeader ==
  <<"Asset Name", "Asset Type", "Asset Tag", "Serial Number", "Cost",
    "Acquisition Date">>

\* asset.serialNumber || ""
OrEmpty(v) == IF Truthy(v) THEN v ELSE Str(<<>>)

\* The object the export maps an asset to, as a row of cells by header.
ExportRow(asset) ==
  [c \in Columns |->
     CASE c = "Asset Name" -> asset.name
       [] c = "Asset Type" -> asset.type
       [] c = "Asset Tag" -> asset.tag
       [] c = "Serial Number" -> OrEmpty(asset.serialNumber)
       [] c = "Cost" -> asset.cost
       [] c = "Acquisition Date" -> OrEmpty(asset.acquisitionDate)
       [] OTHER -> Undefined]

\* json_to_sheet: the header row is the keys of the objects, so a sheet of no
\* objects has none.
JsonToSheet(objects) ==
  [header |-> IF objects = <<>> THEN <<>> ELSE ExportHeader, rows |-> objects]

\* The handler registered for GET /api/assets/export.
ExportAssets(tbl, seq) ==
  LET all == getAllAssets(tbl)
  IN Answer(200, tbl, seq, <<>>, <<>>,
            JsonToSheet([i \in 1..Len(all) |-> ExportRow(all[i])]))

\* The GET routes of one path segment under /api/assets, in the order they are
\* registered; a request goes to the first whose pattern matches.
ExportSegment == <<"e", "x", "p", "o", "r", "t">>

GetRoutes == <<":id", "export">>

Matches(pattern, segment) == pattern = ":id" \/ segment = ExportSegment

GetRoute(tbl, seq, segment) ==
  LET first == CHOOSE i \in 1..Len(GetRoutes) :
                 /\ Matches(GetRoutes[i], segment)
                 /\ \A j \in 1..(i - 1) : ~Matches(GetRoutes[j], segment)
  IN IF GetRoutes[first] = ":id" THEN GetAssetById(tbl, seq, segment)
     ELSE ExportAssets(tbl, seq)

-----------------------------------------------------------------------------
(* Requests *)

Empty == <<>>
TagA == <<"T", "1">>
TagB == <<"T", "2">>
IsoDate == <<"2", "0", "2", "4", "-", "0", "1", "-", "0", "5">>

NoBody == [k \in BodyKeys |-> Undefined]

Present(body) == {k \in BodyKeys : body[k].json # "undefined"}

\* Request bodies of the API runs: every combination of a missing, an empty, a
\* wrongly typed, an unparseable, a negative and a well-formed value, and of a
\* body carrying an id of its own.
Bodies ==
  [name : {Undefined, Str(Empty), Str(<<"A">>)},
   type : {Undefined, Str(<<"p", "c">>)},
   tag : {Undefined, Str(Empty), Str(TagA), Str(TagB)},
   serialNumber : {Undefined},
   cost : {Undefined, Num(<<"5">>), Str(<<"x">>), Str(<<"-", "5">>),
           Str(<<"1", ".", "5">>)},
   acquisitionDate : {Undefined},
   id : {Undefined, Num(<<"9">>)}]

\* Create bodies of the field runs: well-formed, with and without the optional
\* fields, a cost of one decimal and one of two.
Records ==
  [name : {Str(<<"A">>)},
   type : {Str(<<"p", "c">>)},
   tag : {Str(TagA), Str(TagB)},
   serialNumber : {Undefined, Str(<<"S">>)},
   cost : {Str(<<"1", ".", "5">>), Str(<<"1", "5", "0", ".", "0", "0">>)},
   acquisitionDate : {Undefined, Str(IsoDate)},
   id : {Undefined}]

\* Update bodies of the field runs: every subset of the fields.
Patches ==
  [name : {Undefined, Str(<<"B">>)},
   type : {Undefined, Str(<<"t", "v">>)},
   tag : {Undefined, Str(TagB)},
   serialNumber : {Undefined, Null},
   cost : {Undefined, Str(<<"1", "5", "0", ".", "0", "0">>)},
   acquisitionDate : {Undefined, Str(IsoDate)},
   id : {Undefined}]

\* The :id path segments: the ids the table can hold, and text.
Params == {DigitsOf(i) : i \in 1..MaxId} \cup {<<"x">>}

\* Sheet rows of the import runs.
NoRow == [c \in Columns |-> Undefined]

SheetRows ==
  {[NoRow EXCEPT !["Asset Name"] = Str(<<"A">>),
                 !["Asset Type"] = Str(<<"p", "c">>),
                 !["Asset Tag"] = tag,
                 !["Cost"] = cost] :
     tag \in {Undefined, Str(TagA), Str(TagB)},
     cost \in {Num(<<"1", ".", "5">>), Num(<<"-", "5">>)}}

Files == UNION {[1..n -> SheetRows] : n \in 0..MaxRows}

\* An .xlsx upload of an allowed type and size.
Xlsx ==
  [present |-> TRUE,
   mimetype |-> "application/vnd.openxmlformats-officedocument.spreadsheetml.sheet",
   size |-> 4096]

Uploads == {[file |-> Xlsx, data |-> data] : data \in Files}

\* Path segments of the id runs: the ids, text, and text that starts with a
\* digit.
Segments == Params \cup {<<"1", "x">>, <<"-", "1">>, <<"1", ".", "5">>}

\* Bodies of the id runs: a create of either tag and a change of the name.
PathBodies ==
  {[NoBody EXCEPT !.name = Str(<<"A">>), !.type = Str(<<"p", "c">>),
                  !.tag = Str(tag), !.cost = Str(<<"1", ".", "5">>)] :
     tag \in {TagA, TagB}}

PathPatches == {[NoBody EXCEPT !.name = Str(<<"B">>)]}

\* Sheet rows of the interchange runs.
Row(tag, cost) ==
  [NoRow EXCEPT !["Asset Name"] = Str(<<"A">>),
                !["Asset Type"] = Str(<<"p", "c">>),
                !["Asset Tag"] = tag,
                !["Cost"] = cost]

\* A row that names every field by two of its aliases, or by a later one.
AliasRow ==
  [NoRow EXCEPT !["Name"] = Str(<<"A">>), !["name"] = Str(<<"B">>),
                !["asset_type"] = Str(<<"p", "c">>),
                !["Asset Tag"] = Str(TagB), !["tag"] = Str(TagA),
                !["Cost"] = Num(<<"1", ".", "5">>), !["price"] = Num(<<"7">>),
                !["SerialNumber"] = Str(<<"S">>), !["serial"] = Str(<<"R">>),
                !["acquisition_date"] = Str(IsoDate)]

ImportRows ==
  {Row(Str(TagA), Num(<<"1", ".", "5">>)),
   Row(Str(TagB), Num(<<"1", ".", "5">>)),
   [Row(Str(TagB), Num(<<"1", ".", "5">>)) EXCEPT
      !["Serial Number"] = Str(<<"S">>), !["Acquisition Date"] = Str(IsoDate)],
   Row(Undefined, Num(<<"1", ".", "5">>)),
   Row(Str(TagA), Undefined),
   Row(Str(TagB), Str(<<"x">>)),
   Row(Str(TagB), Num(<<"-", "5">>)),
   Row(Str(TagA), Num(<<"0">>)),
   [Row(Str(TagB), Num(<<"0">>)) EXCEPT !["Price"] = Num(<<"5">>)],
   AliasRow}

ImportFiles == UNION {[1..n -> ImportRows] : n \in 0..MaxRows}

\* Sheet rows of the batch runs: canonical columns only, every cell text or a
\* number other than zero; a row of either tag, one without a cost and one
\* without a tag.
PlainRows ==
  {Row(Str(TagA), Num(<<"1", ".", "5">>)),
   Row(Str(TagB), Num(<<"1", ".", "5">>)),
   Row(Str(TagA), Undefined),
   Row(Undefined, Num(<<"1", ".", "5">>))}

BatchFiles == UNION {[1..n -> PlainRows] : n \in 0..(MaxRows + 1)}

BatchUploads == {[file |-> Xlsx, data |-> data] : data \in BatchFiles}

\* Uploads the middleware refuses, or that carry no file: another type, and
\* one byte more than the limit; and one of exactly the limit's length.
Xls == [Xlsx EXCEPT !.mimetype = "application/vnd.ms-excel"]
Csv == [Xlsx EXCEPT !.mimetype = "text/csv"]
AtLimit == [Xlsx EXCEPT !.size = FileSizeLimit]
OverLimit == [Xlsx EXCEPT !.size = FileSizeLimit + 1]

SheetUploads ==
  {[file |-> Xlsx, data |-> data] : data \in ImportFiles}
    \cup {[file |-> file, data |-> <<row>>] :
            file \in {Xls, Csv, AtLimit, OverLimit},
            row \in {Row(Str(TagA), Num(<<"1", ".", "5">>)),
                     Row(Str(TagA), Undefined)}}
    \cup {[file |-> NoFile, data |-> <<>>]}

-----------------------------------------------------------------------------
(* Sequential use: one request at a time, each answered before the next.   *)

VARIABLES
  assets,   \* the rows of table "assets"
  nextId,   \* the next value of the id sequence
  issued,   \* every id a stored row has ever had
  req,      \* the request being answered
  res,      \* its response
  before,   \* the table when the request arrived
  clients,  \* concurrent use: each client's request and how far its route is
  sort      \* the data table: sortField and sortDirection

vars == <<assets, nextId, issued, req, res, before, clients, sort>>

NoReq ==
  [op |-> "none", param |-> Empty, body |-> NoBody, data |-> <<>>, file |-> NoFile]
NoRes == [status |-> 0, errors |-> <<>>, rowErrors |-> <<>>, out |-> <<>>]

Clients == {"c1", "c2"}

\* A client with no request under way.
Idle ==
  [pc |-> "idle", op |-> "none", param |-> Empty, body |-> NoBody, data |-> <<>>,
   n |-> 0, assetsToCreate |-> <<>>, errors |-> <<>>, status |-> 0]

Init ==
  /\ assets = <<>>
  /\ nextId = 1
  /\ issued = {}
  /\ req = NoReq
  /\ res = NoRes
  /\ before = <<>>
  /\ clients = [c \in Clients |-> Idle]
  /\ sort = [field |-> "name", direction |-> "asc"]

\* The route's answer `a` to request `r` becomes the state.
HandleReq(r, a) ==
  /\ a.seq <= MaxId + 1
  /\ assets' = a.assets
  /\ nextId' = a.seq
  /\ issued' = issued \cup Ids(a.assets)
  /\ req' = r
  /\ res' = [status |-> a.status, errors |-> a.errors,
             rowErrors |-> a.rowErrors, out |-> a.out]
  /\ before' = assets
  /\ UNCHANGED <<clients, sort>>

Handle(op, param, body, data, a) ==
  HandleReq([op |-> op, param |-> param, body |-> body, data |-> data,
             file |-> NoFile], a)

List ==
  /\ req.op = "none"
  /\ Handle("LIST", Empty, NoBody, <<>>, GetAssets(assets, nextId))

Get(params) ==
  /\ req.op = "none"
  /\ \E param \in params :
       Handle("GET", param, NoBody, <<>>, GetAssetById(assets, nextId, param))

Post(bodies) ==
  /\ req.op = "none"
  /\ \E body \in bodies :
       Handle("POST", Empty, body, <<>>, PostAsset(assets, nextId, body))

Put(params, bodies) ==
  /\ req.op = "none"
  /\ \E param \in params, body \in bodies :
       Handle("PUT", param, body, <<>>, PutAsset(assets, nextId, param, body))

Delete(params) ==
  /\ req.op = "none"
  /\ \E param \in params :
       Handle("DELETE", param, NoBody, <<>>, DeleteAsset(assets, nextId, param))

Import(uploads) ==
  /\ req.op = "none"
  /\ \E up \in uploads :
       HandleReq([op |-> "IMPORT", param |-> Empty, body |-> NoBody,
                  data |-> up.data, file |-> up.file],
                 ImportRoute(assets, nextId, up.file, up.data))

\* GET /api/assets/export
Export ==
  /\ req.op = "none"
  /\ Handle("EXPORT", ExportSegment, NoBody, <<>>,
            GetRoute(assets, nextId, ExportSegment))

\* The caller receives the response.
Reply ==
  /\ req.op # "none"
  /\ req' = NoReq
  /\ res' = NoRes
  /\ before' = <<>>
  /\ UNCHANGED <<assets, nextId, issued, clients, sort>>

Next ==
  \/ List
  \/ Get(Params)
  \/ Post(Bodies)
  \/ Put(Params, Bodies)
  \/ Delete(Params)
  \/ Import(Uploads)
  \/ Reply

Spec == Init /\ [][Next]_vars

NextFields ==
  \/ Get(Params)
  \/ Post(Records)
  \/ Put(Params, Patches)
  \/ Delete(Params)
  \/ Reply

SpecFields == Init /\ [][NextFields]_vars

\* The id runs.
NextPaths ==
  \/ Get(Segments)
  \/ Post(PathBodies)
  \/ Put(Segments, PathPatches)
  \/ Delete(Segments)
  \/ Reply

SpecPaths == Init /\ [][NextPaths]_vars

\* The interchange runs.
NextSheets ==
  \/ Import(SheetUploads)
  \/ Export
  \/ Delete(Params)
  \/ Reply

SpecSheets == Init /\ [][NextSheets]_vars

\* The batch runs.
NextBatch ==
  \/ Import(BatchUploads)
  \/ Delete(Params)
  \/ Reply

SpecBatch == Init /\ [][NextBatch]_vars

-----------------------------------------------------------------------------
(* Concurrent use: the routes are async functions, so between two awaited    *)
(* storage calls of one request the statements of another may run.  Each     *)
(* action below is one request's code up to and including its next           *)
(* statement; a statement is atomic in the database.                         *)

RaceBodies ==
  [name : {Str(<<"A">>)},
   type : {Str(<<"p", "c">>)},
   tag : {Undefined, Str(TagA), Str(TagB)},
   serialNumber : {Undefined},
   cost : {Str(<<"1", ".", "5">>)},
   acquisitionDate : {Undefined},
   id : {Undefined}]

\* Updates that move a tag.
RacePatches ==
  {[NoBody EXCEPT !.tag = Str(tag)] : tag \in {TagA, TagB}}

RaceRows ==
  {[NoRow EXCEPT !["Asset Name"] = Str(<<"A">>),
                 !["Asset Type"] = Str(<<"p", "c">>),
                 !["Asset Tag"] = Str(tag),
                 !["Cost"] = Num(<<"1", ".", "5">>)] : tag \in {TagA, TagB}}

\* An empty sheet, one row, or two rows with the same or with different tags.
RaceFiles ==
  {<<>>} \cup {<<r>> : r \in RaceRows} \cup {<<r, s>> : r, s \in RaceRows}

Started(c, op, param, body, data, pc, status) ==
  clients' = [clients EXCEPT ![c] =
    [pc |-> pc, op |-> op, param |-> param, body |-> body, data |-> data,
     n |-> 0, assetsToCreate |-> <<>>, errors |-> <<>>, status |-> status]]

Moved(c, pc, status) ==
  clients' = [clients EXCEPT ![c].pc = pc, ![c].status = status]

Stored(tbl, seq) ==
  /\ seq <= MaxId + 1
  /\ assets' = tbl
  /\ nextId' = seq
  /\ issued' = issued \cup Ids(tbl)
  /\ UNCHANGED <<req, res, before, sort>>

Kept == UNCHANGED <<assets, nextId, issued, req, res, before, sort>>

\* POST /api/assets up to the call of getAssetByTag.
PostArrive(c) ==
  /\ clients[c].pc = "idle"
  /\ \E body \in RaceBodies :
       IF ZodIssues(body, FALSE) # <<>>
         THEN Started(c, "POST", Empty, body, <<>>, "done", 400)
       ELSE Started(c, "POST", Empty, body, <<>>, "select", 0)
  /\ Kept

\* PUT /api/assets/:id up to the call of getAssetByTag or updateAsset.
PutArrive(c) ==
  /\ clients[c].pc = "idle"
  /\ \E param \in Params, body \in RacePatches :
       IF parseInt(param).nan \/ ZodIssues(body, TRUE) # <<>>
         THEN Started(c, "PUT", param, body, <<>>, "done", 400)
       ELSE IF Truthy(ZodData(body).tag)
         THEN Started(c, "PUT", param, body, <<>>, "select", 0)
       ELSE Started(c, "PUT", param, body, <<>>, "write", 0)
  /\ Kept

\* DELETE /api/assets/:id up to the call of deleteAsset.
DeleteArrive(c) ==
  /\ clients[c].pc = "idle"
  /\ \E param \in Params :
       IF parseInt(param).nan
         THEN Started(c, "DELETE", param, NoBody, <<>>, "done", 400)
       ELSE Started(c, "DELETE", param, NoBody, <<>>, "write", 0)
  /\ Kept

\* POST /api/assets/import up to the loop.
ImportArrive(c, files) ==
  /\ clients[c].pc = "idle"
  /\ \E data \in files :
       IF Len(data) = 0
         THEN Started(c, "IMPORT", Empty, NoBody, data, "done", 400)
       ELSE Started(c, "IMPORT", Empty, NoBody, data, "scan", 0)
  /\ Kept

\* getAssetByTag answers a create or an update, which goes on to its write
\* or answers 409.
TagSelect(c) ==
  LET r == clients[c]
      existingAsset == getAssetByTag(assets, ZodData(r.body).tag.s)
      conflict == IF r.op = "POST" THEN existingAsset # <<>>
                  ELSE PutTagConflict(assets, parseInt(r.param).n, ZodData(r.body))
  IN /\ r.pc = "select"
     /\ IF conflict THEN Moved(c, "done", 409) ELSE Moved(c, "write", 0)
     /\ Kept

\* One turn of the import loop, with its getAssetByTag; after the last row
\* the import answers 400 or goes on to createManyAssets.
ScanNext(c) ==
  LET r == clients[c]
      this == ScanRow(assets, r.data[r.n + 1], r.n + 1)
      list == IF this.ok THEN Append(r.assetsToCreate, this.asset)
              ELSE r.assetsToCreate
      errs == IF this.ok THEN r.errors ELSE Append(r.errors, this.error)
      last == r.n + 1 = Len(r.data)
      none == Len(errs) > 0 /\ Len(list) = 0
  IN /\ r.pc = "scan"
     /\ clients' = [clients EXCEPT
          ![c].n = r.n + 1,
          ![c].assetsToCreate = list,
          ![c].errors = errs,
          ![c].pc = IF ~last THEN "scan" ELSE IF none THEN "done" ELSE "write",
          ![c].status = IF last /\ none THEN 400 ELSE 0]
     /\ Kept

\* createAsset answers a create.
Insert(c) ==
  LET r == clients[c]
      created == createAsset(assets, nextId, ZodData(r.body))
  IN /\ r.pc = "write" /\ r.op = "POST"
     /\ Stored(created.assets, created.seq)
     /\ Moved(c, "done", IF created.err # "" THEN 500 ELSE 201)

\* updateAsset answers an update.
Update(c) ==
  LET r == clients[c]
      updated == updateAsset(assets, parseInt(r.param).n, ZodData(r.body))
  IN /\ r.pc = "write" /\ r.op = "PUT"
     /\ Stored(updated.assets, nextId)
     /\ Moved(c, "done", IF updated.err # "" THEN 500
                         ELSE IF updated.rows = <<>> THEN 404 ELSE 200)

\* deleteAsset answers a delete.
Remove(c) ==
  LET r == clients[c]
      gone == deleteAsset(assets, parseInt(r.param).n)
  IN /\ r.pc = "write" /\ r.op = "DELETE"
     /\ Stored(gone.assets, nextId)
     /\ Moved(c, "done", IF gone.deleted THEN 200 ELSE 404)

\* createManyAssets answers an import.
BatchInsert(c) ==
  LET r == clients[c]
      created == createManyAssets(assets, nextId, r.assetsToCreate)
  IN /\ r.pc = "write" /\ r.op = "IMPORT"
     /\ Stored(created.assets, created.seq)
     /\ Moved(c, "done", IF created.err # "" THEN 500 ELSE 200)

\* The client receives the response.
Respond(c) ==
  /\ clients[c].pc = "done"
  /\ clients' = [clients EXCEPT ![c] = Idle]
  /\ Kept

NextConc ==
  \E c \in Clients :
    \/ PostArrive(c)
    \/ PutArrive(c)
    \/ DeleteArrive(c)
    \/ ImportArrive(c, RaceFiles)
    \/ TagSelect(c)
    \/ ScanNext(c)
    \/ Insert(c)
    \/ Update(c)
    \/ Remove(c)
    \/ BatchInsert(c)
    \/ Respond(c)

SpecConc == Init /\ [][NextConc]_vars

\* The loop runs: imports row by row, beside deletes; a row of either tag and
\* one that lacks its cost, in sheets of up to two rows.
ScanRows ==
  {Row(Str(TagA), Num(<<"1", ".", "5">>)),
   Row(Str(TagB), Num(<<"1", ".", "5">>)),
   Row(Str(TagA), Undefined)}

ScanFiles ==
  {<<>>} \cup {<<r>> : r \in ScanRows} \cup {<<r, s>> : r, s \in ScanRows}

NextScan ==
  \E c \in Clients :
    \/ ImportArrive(c, ScanFiles)
    \/ DeleteArrive(c)
    \/ ScanNext(c)
    \/ Remove(c)
    \/ BatchInsert(c)
    \/ Respond(c)

SpecScan == Init /\ [][NextScan]_vars

-----------------------------------------------------------------------------
(* Properties of the routes, read in the state a request leaves: req is the  *)
(* request, res its response, before the table it found, assets the table    *)
(* it left.                                                                  *)

ReqId == parseInt(req.param)
ValidBody(partial) == ZodIssues(req.body, partial) = <<>>
Holders(tbl, tag) == {r \in Rows(tbl) : r.tag = tag}
Amount(text) == DecimalIn(text).cents

\* C1: no two persisted assets hold the same tag, whatever the requests and
\* however their statements interleave.
C1_TagsUnique ==
  \A i, j \in 1..Len(assets) : assets[i].tag = assets[j].tag => i = j

\* Two creates of one tag were under way at once; one stored it, the other's
\* insert was refused.
C1_Witness ==
  /\ clients["c1"].op = "POST" /\ clients["c2"].op = "POST"
  /\ clients["c1"].body.tag = clients["c2"].body.tag
  /\ clients["c1"].status = 201 /\ clients["c2"].status = 500
  /\ Len(assets) = 1

\* C2: a valid create body whose tag a persisted asset already holds is
\* answered 409 and leaves the table as it was.
C2_CreateDuplicateTag ==
  (req.op = "POST" /\ ValidBody(FALSE) /\ Holders(before, req.body.tag) # {})
    => (res.status = 409 /\ assets = before)

C2_Witness ==
  /\ req.op = "POST" /\ ValidBody(FALSE)
  /\ Holders(before, req.body.tag) # {}
  /\ res.status = 409

\* C3: an update of an existing asset with a valid body is answered 409
\* exactly when the body's tag is held by a different asset, and a 409 leaves
\* the table as it was.
C3_UpdateConflictIff ==
  (req.op = "PUT" /\ ~ReqId.nan /\ ReqId.n \in Ids(before) /\ ValidBody(TRUE))
    => /\ res.status = 409
            <=> (\E r \in Holders(before, req.body.tag) : r.id # ReqId.n)
       /\ res.status = 409 => assets = before

\* C4: an update with a valid body addressed to an id no asset has is answered
\* 404 and leaves the table as it was.
C4_UpdateMissingId ==
  (req.op = "PUT" /\ ~ReqId.nan /\ ReqId.n \notin Ids(before) /\ ValidBody(TRUE))
    => (res.status = 404 /\ assets = before)

\* C5: a successful update leaves every field absent from the patch, the id
\* and every other asset as they were, and gives every field present in the
\* patch the patch's value (a cost as the same amount).
C5_UpdateFrame ==
  (req.op = "PUT" /\ res.status = 200)
    => /\ Len(assets) = Len(before)
       /\ \A i \in 1..Len(before) :
            IF before[i].id # ReqId.n THEN assets[i] = before[i]
            ELSE /\ assets[i].id = before[i].id
                 /\ res.out = <<assets[i]>>
                 /\ \A k \in KeySet :
                      IF k \notin Present(req.body) THEN assets[i][k] = before[i][k]
                      ELSE IF k = "cost"
                        THEN Amount(assets[i][k].s) = Amount(req.body[k].s)
                      ELSE assets[i][k] = req.body[k]

C5_Witness ==
  /\ req.op = "PUT" /\ res.status = 200
  /\ Len(before) = 2
  /\ Present(req.body) = {"cost"}
  /\ \E i \in 1..2 : before[i].id = ReqId.n /\ assets[i].cost # before[i].cost

\* C6: every persisted asset has a cost of zero or more.
C6_CostNonNegative == \A r \in Rows(assets) : Amount(r.cost.s) >= 0

\* C7: a create body in which name, type or tag is missing or empty, or cost is
\* missing or no non-negative decimal, is answered 400 with a list of field
\* errors and leaves the table as it was.
NonEmptyText(v) == v.json = "string" /\ v.s # Empty
NonNegativeDecimal(v) ==
  v.json = "string" /\ DecimalIn(v.s).ok /\ Amount(v.s) >= 0

C7_CreateRejectsMalformed ==
  (/\ req.op = "POST"
   /\ \/ \E k \in {"name", "type", "tag"} : ~NonEmptyText(req.body[k])
      \/ ~NonNegativeDecimal(req.body.cost))
    => (res.status = 400 /\ res.errors # <<>> /\ assets = before)

\* C8: creating a valid asset with an unused tag and then reading the returned
\* id gives back every field of the input (an absent optional field as null).
Given(v) == IF v.json = "undefined" THEN Null ELSE v
ValidCreate ==
  /\ req.op = "POST" /\ ValidBody(FALSE) /\ DataOk(ZodData(req.body))
  /\ Holders(before, req.body.tag) = {}

C8_CreateThenGetEqual ==
  ValidCreate
    => /\ res.status = 201
       /\ getAsset(assets, res.out[1].id) = res.out
       /\ \A k \in KeySet : res.out[1][k] = Given(req.body[k])

\* C8, with the cost as the column returns it: the input's amount, written
\* with exactly two decimals.
TwoDecimals(text) ==
  /\ Len(text) >= 4
  /\ text[Len(text) - 2] = "."
  /\ \A i \in 1..Len(text) : i # Len(text) - 2 => IsDigit(text[i]) \/ (i = 1 /\ text[i] = "-")

C8_CreateThenGetNormalised ==
  ValidCreate
    => /\ res.status = 201
       /\ getAsset(assets, res.out[1].id) = res.out
       /\ \A k \in KeySet \ {"cost"} : res.out[1][k] = Given(req.body[k])
       /\ TwoDecimals(res.out[1].cost.s)
       /\ Amount(res.out[1].cost.s) = Amount(req.body.cost.s)

C8_Witness ==
  /\ ValidCreate /\ res.status = 201
  /\ res.out[1].cost # req.body.cost
  /\ req.body.serialNumber # Undefined /\ req.body.acquisitionDate # Undefined

\* C9: delete removes exactly the asset with the id and answers 200 when it
\* exists; otherwise it answers 404, the table is as it was, and the id is
\* still not found.
C9_Delete ==
  (req.op = "DELETE" /\ ~ReqId.nan)
    => IF ReqId.n \in Ids(before)
         THEN /\ res.status = 200
              /\ Len(assets) = Len(before) - 1
              /\ Rows(assets) = {r \in Rows(before) : r.id # ReqId.n}
       ELSE /\ res.status = 404
            /\ assets = before
            /\ getAsset(assets, ReqId.n) = <<>>

\* A second delete of an id: the first removed the asset, this one finds none.
C9_Witness ==
  /\ req.op = "DELETE" /\ ~ReqId.nan /\ res.status = 404
  /\ ReqId.n \in issued
  /\ Len(before) > 0

\* C10: an id given to a new asset was never given before, also not to an
\* asset since deleted, and no create, update or import changes the id of an
\* asset the table holds.
C10_IdsNeverReused ==
  [][/\ (Ids(assets') \ Ids(assets)) \cap issued = {}
     /\ req'.op \in {"POST", "PUT", "IMPORT"} =>
          /\ Len(assets') >= Len(assets)
          /\ \A i \in 1..Len(assets) : assets'[i].id = assets[i].id]_vars

C10_Witness ==
  /\ req.op \in {"POST", "IMPORT"}
  /\ Ids(assets) \ Ids(before) # {}
  /\ issued \ Ids(assets) # {}

-----------------------------------------------------------------------------
(* Properties of the interchange.  A row is read as the import contract reads *)
(* it: a field's value is the cell of the first alias column the row carries. *)

Carried(row, k) ==
  LET at == {i \in 1..4 : row[Aliases[k][i]].json # "undefined"}
  IN IF at = {} THEN Undefined
     ELSE row[Aliases[k][CHOOSE i \in at : \A j \in at : i <= j]]

\* The field an asset made from the row is to have.
RowField(row, k) ==
  LET v == Carried(row, k)
  IN IF v.json = "undefined" \/ (k \notin Required /\ v.s = Empty) THEN Null
     ELSE Str(v.s)

Lacks(row) == \E k \in Required : Carried(row, k).json = "undefined"
TagHeld(tbl, row) == RowField(row, "tag") \in Tags(tbl)
SchemaValid(row) ==
  /\ \A k \in {"name", "type", "tag"} : NonEmptyText(RowField(row, k))
  /\ NonNegativeDecimal(RowField(row, "cost"))
RowPasses(tbl, row) == ~Lacks(row) /\ ~TagHeld(tbl, row) /\ SchemaValid(row)

\* An import whose upload reached the route.
Imported == req.op = "IMPORT" /\ req.file \in {Xlsx, Xls, AtLimit}
Passing == {i \in 1..Len(req.data) : RowPasses(before, req.data[i])}
PassingRows == SelectSeq(req.data, LAMBDA row : RowPasses(before, row))

\* The asset is the row's: every field, the cost as the same amount.
MadeFrom(asset, row) ==
  /\ \A k \in KeySet \ {"cost"} : asset[k] = RowField(row, k)
  /\ Amount(asset.cost.s) = Amount(RowField(row, "cost").s)

\* The numbers of the rows the response reports an error for (the first data
\* row is row 2).
Reported == {res.rowErrors[j].row : j \in 1..Len(res.rowErrors)}

\* C11: an import in which at least one row passes the per-row checks is
\* answered 200, persists every passing row as a new asset, reports their
\* number, and lists an error for exactly the skipped rows.
C11_ImportPassingRows ==
  (Imported /\ Passing # {})
    => /\ res.status = 200
       /\ Len(res.out) = Cardinality(Passing)
       /\ assets = before \o res.out
       /\ \A j \in 1..Len(res.out) : MadeFrom(res.out[j], PassingRows[j])
       /\ Len(res.rowErrors) = Len(req.data) - Cardinality(Passing)
       /\ Reported = {i + 1 : i \in (1..Len(req.data)) \ Passing}

\* C12: an import of at least one data row in which no row passes the per-row
\* checks is answered 400 with one error for each row, and leaves the table as
\* it was.
C12_ImportNoPassingRow ==
  (Imported /\ Len(req.data) >= 1 /\ Passing = {})
    => /\ res.status = 400
       /\ Len(res.rowErrors) = Len(req.data)
       /\ Reported = {i + 1 : i \in 1..Len(req.data)}
       /\ assets = before

\* C13: a row that lacks name, type, tag or cost gets exactly one error,
\* labelled with its row number (data row p of the sheet, counted from 1, is
\* row p + 1), is not among the created assets, and every other row that
\* passes the checks is still imported.
C13_ImportRowLacksField ==
  Imported
    => \A p \in 1..Len(req.data) :
         Lacks(req.data[p])
           => /\ Cardinality({j \in 1..Len(res.rowErrors) :
                               res.rowErrors[j].row = p + 1}) = 1
              /\ Len(res.out) <=
                   Cardinality({q \in 1..Len(req.data) : ~Lacks(req.data[q])})
              /\ \A q \in Passing :
                   \E j \in 1..Len(res.out) :
                     /\ MadeFrom(res.out[j], req.data[q])
                     /\ res.out[j] \in Rows(assets)

\* The errors array of the import handler when its loop ends.
Noted == Scan(before, req.data, Len(req.data)).errors

C15_ImportRowFailsSchema ==
  Imported
    => \A p \in 1..Len(req.data) :
         (/\ ~Lacks(req.data[p])
          /\ ~TagHeld(before, req.data[p])
          /\ ~SchemaValid(req.data[p]))
           => /\ \E j \in 1..Len(res.rowErrors) :
                   /\ res.rowErrors[j].row = p + 1
                   /\ res.rowErrors[j].issues # <<>>
              /\ \A r \in Rows(assets) \ Rows(before) : ~MadeFrom(r, req.data[p])
              /\ Passing # {}
                   => /\ res.status = 200
                      /\ \A q \in Passing :
                           \E j \in 1..Len(res.out) : MadeFrom(res.out[j], req.data[q])

\* C16: every field of an imported asset, the cost too, is the cell of the
\* earliest alias column its row carries, in the order of the alias lists.
C16_ImportAliasOrder ==
  (Imported /\ res.status = 200)
    => \A j \in 1..Len(res.out) :
         \E p \in 1..Len(req.data) : MadeFrom(res.out[j], req.data[p])

\* An asset without its id.
Fields(asset) == [k \in KeySet |-> asset[k]]

\* C17: exporting the table and importing the exported rows into an empty
\* table gives no row error and a table of the same assets, ids apart.
C17_ExportImportRoundTrip ==
  req.op = "EXPORT"
    => /\ res.status = 200
       /\ LET back == ImportAssets(<<>>, 1, res.out.rows)
          IN /\ back.rowErrors = <<>>
             /\ {Fields(r) : r \in Rows(back.assets)} = {Fields(r) : r \in Rows(before)}
             /\ Len(back.assets) = Len(before)

\* C18: export answers with one sheet whose header is the six labels in
\* order, followed by one row for each persisted asset, a serial number or an
\* acquisition date that is absent written as the empty text; the table is
\* left as it was.
C18_ExportSheet ==
  req.op = "EXPORT"
    => /\ res.status = 200
       /\ res.out.header = ExportHeader
       /\ Len(res.out.rows) = Len(before)
       /\ \A i \in 1..Len(before) :
            /\ res.out.rows[i]["Asset Name"] = before[i].name
            /\ res.out.rows[i]["Asset Type"] = before[i].type
            /\ res.out.rows[i]["Asset Tag"] = before[i].tag
            /\ res.out.rows[i]["Cost"] = before[i].cost
            /\ res.out.rows[i]["Serial Number"] =
                 (IF before[i].serialNumber = Null THEN Str(Empty)
                  ELSE before[i].serialNumber)
            /\ res.out.rows[i]["Acquisition Date"] =
                 (IF before[i].acquisitionDate = Null THEN Str(Empty)
                  ELSE before[i].acquisitionDate)
       /\ assets = before

-----------------------------------------------------------------------------
(* Properties of the id path segment *)

\* Text that is an integer: an optional sign and digits, nothing else.
WellFormedInteger(text) ==
  Unsigned(text) # <<>> /\ DigitsPrefix(Unsigned(text)) = Unsigned(text)

\* C19: GET, PUT and DELETE with an id segment that is no well-formed integer,
\* also one that only starts with digits, are answered 400, return no asset
\* and leave the table as it was.
C19_MalformedIdRejected ==
  (req.op \in {"GET", "PUT", "DELETE"} /\ ~WellFormedInteger(req.param))
    => (res.status = 400 /\ res.out = <<>> /\ assets = before)

-----------------------------------------------------------------------------
(* Properties of the upload *)

\* The upload carries no file, or a file of another type than the two
\* spreadsheet types, or one of more than 10MB.
Refused ==
  \/ ~req.file.present
  \/ req.file.mimetype \notin {Xlsx.mimetype, Xls.mimetype}
  \/ req.file.size > 10 * 1024 * 1024

-----------------------------------------------------------------------------
(* Properties of concurrent requests *)

\* Both clients have their answer to a create of the same tag.
BothCreated ==
  /\ \A c \in Clients : clients[c].op = "POST" /\ clients[c].pc = "done"
  /\ clients["c1"].body.tag = clients["c2"].body.tag
  /\ clients["c1"].body.tag.json = "string"

\* C21: of two creates of the same unused tag, however their statements
\* interleave, one is answered 201 and the other 409, never 500, and one
\* asset holds the tag afterwards.
C21_CreateRace ==
  \A c, d \in Clients :
    (BothCreated /\ c # d /\ clients[c].status = 201)
      => /\ clients[d].status = 409
         /\ Cardinality(Holders(assets, clients[c].body.tag)) = 1

-----------------------------------------------------------------------------
(* Properties of the import loop *)

\* The tags of the batch the import handler hands to createManyAssets.
BatchTags ==
  LET batch == Scan(before, req.data, Len(req.data)).assetsToCreate
  IN [j \in 1..Len(batch) |-> batch[j].tag]

\* C22: in a sequential run the batch handed to createManyAssets has pairwise
\* distinct tags, none of them held by a persisted asset, also when two rows
\* of the file carry the same new tag; the import is never answered 500.
C22_ImportBatchDistinct ==
  Imported
    => /\ \A i, j \in 1..Len(BatchTags) : BatchTags[i] = BatchTags[j] => i = j
       /\ \A j \in 1..Len(BatchTags) : BatchTags[j] \notin Tags(before)
       /\ res.status # 500

\* C24: a row is reported as missing required fields only if it lacks name,
\* type, tag or cost; a row with a name, a type, an unused tag and the number
\* 0 as cost is imported, with a cost of zero.
C24_ImportZeroCost ==
  (Imported /\ res.status \in {200, 400})
    => /\ \A j \in 1..Len(res.rowErrors) :
            res.rowErrors[j].kind = "missing"
              => Lacks(req.data[res.rowErrors[j].row - 1])
       /\ \A p \in Passing :
            (/\ req.data[p]["Cost"] = Num(<<"0">>)
             /\ \A i \in 2..4 : req.data[p][Aliases["cost"][i]] = Undefined)
              => \E r \in Rows(assets) \ Rows(before) :
                   MadeFrom(r, req.data[p]) /\ Amount(r.cost.s) = 0

\* The errors an import under way has noted for data row p.
ErrorsOf(c, p) ==
  {j \in 1..Len(clients[c].errors) : clients[c].errors[j].row = p + 1}

\* After k rows every row has one outcome, and a row lacking a field is
\* reported as that, whatever its tag.
OneOutcome(c) ==
  LET r == clients[c]
  IN /\ Len(r.errors) + Len(r.assetsToCreate) = r.n
     /\ \A p \in 1..r.n :
          /\ Cardinality(ErrorsOf(c, p)) <= 1
          /\ Lacks(r.data[p])
               => \E j \in ErrorsOf(c, p) : r.errors[j].kind = "missing"
     /\ \A j \in 1..Len(r.errors) : r.errors[j].row \in 2..(r.n + 1)

\* A step of import c that writes to the table or draws from its sequence.
Writes(c) ==
  /\ clients[c].op = "IMPORT" /\ clients'[c] # clients[c]
  /\ assets' # assets \/ nextId' # nextId

\* C23: while an import scans, each row scanned so far has given either one
\* error or one entry of the batch, so that errors and entries together
\* number the rows scanned; a row failing several checks is reported for the
\* first of them; and the import writes nothing before its last row is
\* scanned.
C23_ScanOutcomes ==
  /\ [](\A c \in Clients : clients[c].op = "IMPORT" => OneOutcome(c))
  /\ [][\A c \in Clients :
          Writes(c) => /\ clients[c].pc = "write"
                       /\ clients[c].n = Len(clients[c].data)]_vars

\* An import has scanned the first of two rows: the row lacks its cost and
\* its tag is held, and the one error noted is that of the missing field.
C23_Witness ==
  /\ clients["c1"].op = "IMPORT" /\ clients["c1"].pc = "scan"
  /\ clients["c1"].n = 1 /\ Len(clients["c1"].data) = 2
  /\ Lacks(clients["c1"].data[1])
  /\ TagHeld(assets, clients["c1"].data[1])
  /\ Len(clients["c1"].errors) = 1
  /\ clients["c1"].errors[1].kind = "missing"
  /\ clients["c1"].assetsToCreate = <<>>

\* ------------------------------------------------------------------------
\* The data table of the client: the rows it is given, under its own sort.

SortFields == {"name", "type", "tag", "cost"}

\* handleSort: the column already sorted by flips the direction, another
\* column takes over and ascends.
handleSort(s, field) ==
  IF s.field = field
  THEN [s EXCEPT !.direction = IF @ = "asc" THEN "desc" ELSE "asc"]
  ELSE [field |-> field, direction |-> "asc"]

\* The characters of the texts, in the order of their UTF-16 code units.
CodeUnits ==
  <<"-", ".", "0", "1", "2", "3", "4", "5", "6", "7", "8", "9",
    "A", "B", "C", "D", "E", "F", "G", "H", "I", "J", "K", "L", "M",
    "N", "O", "P", "Q", "R", "S", "T", "U", "V", "W", "X", "Y", "Z",
    "a", "b", "c", "d", "e", "f", "g", "h", "i", "j", "k", "l", "m",
    "n", "o", "p", "q", "r", "s", "t", "u", "v", "w", "x", "y", "z">>

CodeUnit(c) == CHOOSE i \in 1..Len(CodeUnits) : CodeUnits[i] = c

\* a < b on two strings: by code units, a proper prefix first.
RECURSIVE StringLess(_, _)
StringLess(a, b) ==
  CASE b = <<>> -> FALSE
    [] a = <<>> -> TRUE
    [] Head(a) = Head(b) -> StringLess(Tail(a), Tail(b))
    [] OTHER -> CodeUnit(Head(a)) < CodeUnit(Head(b))

\* parseFloat: an optional sign, digits, and a point with digits, as far as
\* the text goes; NaN when it starts with none of them.  The number is the
\* fraction num / den.
parseFloat(s) ==
  LET whole == DigitsPrefix(Unsigned(s))
      rest == SubSeq(Unsigned(s), Len(whole) + 1, Len(Unsigned(s)))
      frac == IF rest # <<>> /\ Head(rest) = "."
              THEN DigitsPrefix(Tail(rest)) ELSE <<>>
      abs == DigitsValue(whole) * Pow10(Len(frac)) + DigitsValue(frac)
  IN [json |-> "number",
      nan |-> whole = <<>> /\ frac = <<>>,
      num |-> IF HasSign(s) /\ Head(s) = "-" THEN 0 - abs ELSE abs,
      den |-> Pow10(Len(frac))]

\* a < b of the comparator: numbers by value, never when one is NaN; strings
\* by code units.
Less(a, b) ==
  IF "nan" \in DOMAIN a
  THEN ~a.nan /\ ~b.nan /\ a.num * b.den < b.num * a.den
  ELSE StringLess(a.s, b.s)

\* The sort value of a row whose cost is taken as the text it is.
SortValueText(a, field) == a[field]

\* aValue, bValue: the field of the row, the cost parsed to a number.
SortValue(a, field) ==
  IF field = "cost" THEN parseFloat(a.cost.s) ELSE a[field]

\* The comparator handed to sort.
Compare(a, b, field, direction) ==
  CASE Less(SortValue(a, field), SortValue(b, field)) ->
         IF direction = "asc" THEN 0 - 1 ELSE 1
    [] Less(SortValue(b, field), SortValue(a, field)) ->
         IF direction = "asc" THEN 1 ELSE 0 - 1
    [] OTHER -> 0

\* Array.prototype.sort is stable: x goes behind the rows that do not
\* compare greater.
RECURSIVE Place(_, _, _, _)
Place(sorted, x, field, direction) ==
  IF sorted # <<>> /\ Compare(Head(sorted), x, field, direction) <= 0
  THEN <<Head(sorted)>> \o Place(Tail(sorted), x, field, direction)
  ELSE <<x>> \o sorted

\* [...assets].sort(comparator)
RECURSIVE sortedAssets(_, _, _)
sortedAssets(list, field, direction) ==
  IF list = <<>> THEN <<>>
  ELSE Place(sortedAssets(SubSeq(list, 1, Len(list) - 1), field, direction),
             list[Len(list)], field, direction)

\* A click on the header of a column.
HeaderClick ==
  /\ req.op = "none"
  /\ \E field \in SortFields :
       /\ sort' = handleSort(sort, field)
       /\ req' = [NoReq EXCEPT !.op = "SORT", !.param = <<field>>]
  /\ res' = NoRes
  /\ before' = assets
  /\ UNCHANGED <<assets, nextId, issued, clients>>

TagC == <<"T", "3">>

\* Create bodies of the table runs: names, types and tags that differ, and
\* two costs whose order as numbers is not their order as texts.
TableBodies ==
  [name : {Str(<<"A">>), Str(<<"B">>)},
   type : {Str(<<"p", "c">>), Str(<<"t", "v">>)},
   tag : {Str(TagA), Str(TagB), Str(TagC)},
   serialNumber : {Undefined},
   cost : {Str(<<"9">>), Str(<<"1", "0">>)},
   acquisitionDate : {Undefined},
   id : {Undefined}]

\* The table runs: assets are created, and the table showing them is sorted.
NextTable ==
  \/ Post(TableBodies)
  \/ HeaderClick
  \/ Reply

SpecTable == Init /\ [][NextTable]_vars

\* The rows the table shows.
Displayed == sortedAssets(getAllAssets(assets), sort.field, sort.direction)

\* Row a belongs before row b in ascending order of the column.
Before(a, b, field) ==
  IF field = "cost" THEN Amount(a.cost.s) < Amount(b.cost.s)
  ELSE StringLess(a[field].s, b[field].s)

\* The rows are those given, each once, in the order the sort asks for.
Arranged(shown, given, s) ==
  /\ Len(shown) = Len(given)
  /\ Rows(shown) = Rows(given)
  /\ \A i \in 1..(Len(shown) - 1) :
       IF s.direction = "asc" THEN ~Before(shown[i + 1], shown[i], s.field)
       ELSE ~Before(shown[i], shown[i + 1], s.field)

\* The column a step clicks on.
Clicked == req'.param[1]

\* C25: the table starts sorted by name, ascending; a click on its sort
\* column flips the direction and nothing else, a click on another column
\* makes it the sort column, ascending, and no other step changes the sort;
\* the rows shown are always the rows given, each once, ordered by the sort
\* column in the sort direction, the cost by its amount and not as text.
C25_TableSort ==
  /\ sort = [field |-> "name", direction |-> "asc"]
  /\ [][IF req.op = "none" /\ req'.op = "SORT"
        THEN /\ sort'.field = Clicked
             /\ sort'.direction \in {"asc", "desc"}
             /\ IF sort.field = Clicked
                THEN sort'.direction # sort.direction
                ELSE sort'.direction = "asc"
        ELSE sort' = sort]_vars
  /\ [](/\ sort.field \in SortFields
        /\ Arranged(Displayed, assets, sort))

\* Two clicks on the cost column: an asset of 9.00 was created before one of
\* 10.00, and the table shows the dearer one first.
C25_Witness ==
  /\ req.op = "SORT" /\ req.param = <<"cost">>
  /\ sort = [field |-> "cost", direction |-> "desc"]
  /\ Len(assets) = 2
  /\ assets[1].cost.s = <<"9", ".", "0", "0">>
  /\ assets[2].cost.s = <<"1", "0", ".", "0", "0">>
  /\ Displayed = <<assets[2], assets[1]>>

====
